---- MODULE Spec2Model ----
(***************************************************************************)
(* go-ioc: the wire generator (internal/wire/generator.go) and the runtime *)
(* container (ioc/container.go).                                           *)
(*                                                                         *)
(* Strings are sequences of one-character strings, so that the suffix,     *)
(* split and concatenation operations of the code are computed, not        *)
(* assumed.  Go maps are functions on their key set; the iteration order   *)
(* of a Go map is unspecified, so every `range` over a map takes its order *)
(* from a nondeterministically chosen sequence.  Filesystem calls          *)
(* (MkdirAll, WriteFile) and template parsing are taken to succeed.        *)
(***************************************************************************)
EXTENDS Integers, Sequences, FiniteSets, TLC

\* ------------------------------------------------------------------ bounds
MaxComps == 3
MaxRuns == 2
MaxTypes == 3
MaxLookupTypes == 3

\* ----------------------------------------------------------------- strings
Dot == "."

HasSuffix(s, suffix) ==
    /\ Len(suffix) <= Len(s)
    /\ SubSeq(s, Len(s) - Len(suffix) + 1, Len(s)) = suffix

StrContains(s, ch) == \E i \in 1..Len(s) : s[i] = ch

\* index of the first ch in s at or after position from, Len(s)+1 when none
RECURSIVE IndexFrom(_, _, _)
IndexFrom(s, ch, from) ==
    IF from > Len(s) THEN Len(s) + 1
    ELSE IF s[from] = ch THEN from
    ELSE IndexFrom(s, ch, from + 1)

\* strings.Split(s, ".")[0] and [1], for an s that contains a dot
SplitFirst(s) == SubSeq(s, 1, IndexFrom(s, Dot, 1) - 1)
SplitSecond(s) ==
    LET i == IndexFrom(s, Dot, 1)
    IN  SubSeq(s, i + 1, IndexFrom(s, Dot, i + 1) - 1)

\* fmt.Sprintf("%d", n) for the small n that occur
Itoa(n) == <<CASE n = 0 -> "0" [] n = 1 -> "1" [] n = 2 -> "2" [] n = 3 -> "3"
               [] n = 4 -> "4" [] n = 5 -> "5" [] n = 6 -> "6" [] n = 7 -> "7"
               [] n = 8 -> "8" [] OTHER -> "9">>

Range(s) == {s[i] : i \in 1..Len(s)}

Reverse(s) == [i \in 1..Len(s) |-> s[Len(s) + 1 - i]]

\* all enumeration orders of a finite set
Orders(S) == {f \in [1..Cardinality(S) -> S] : \A i, j \in 1..Cardinality(S) : f[i] = f[j] => i = j}

\* --------------------------------------------------------- wire.Component
PkgA == <<"m", "/", "a">>
PkgB == <<"m", "/", "b">>
IfaceI == PkgA \o <<".", "I">>

Dependency(field, type, qualifier) ==
    [FieldName |-> field, Type |-> type, Qualifier |-> qualifier]

Component(pkg, type, qualifier, implements, deps, post, pre) ==
    [Type |-> type, Package |-> pkg, Qualifier |-> qualifier, Implements |-> implements,
     Dependencies |-> deps, PostConstruct |-> post, PreDestroy |-> pre]

NoDeps == <<>>
DepOn(type, qualifier) == <<Dependency(<<"f">>, type, qualifier)>>
TypeA == <<"A">>
TypeB == <<"B">>
RefI == <<"a", ".", "I">>

\* the declarations a scan can hand to NewGenerator: plain services A and B
\* in package m/a (chains, cycles, a self-dependency, a re-declared a.A), an A
\* in package m/b (same type name, other identity), the implementations X
\* and Z (qualifier p) and Y (qualifier q) of interface m/a.I, an
\* implementation W declared outside the interface's package, and consumers
\* of the interface by pkg.I with and without qualifier and by the bare I
ComponentPool ==
    { Component(PkgA, TypeA, <<>>, <<>>, NoDeps, FALSE, TRUE),
      Component(PkgA, TypeA, <<>>, <<>>, DepOn(TypeB, <<>>), FALSE, TRUE),
      Component(PkgA, TypeA, <<>>, <<>>, DepOn(TypeA, <<>>), FALSE, TRUE),
      Component(PkgA, TypeB, <<>>, <<>>, NoDeps, TRUE, TRUE),
      Component(PkgA, TypeB, <<>>, <<>>, DepOn(TypeA, <<>>), TRUE, TRUE),
      Component(PkgA, TypeB, <<>>, <<>>, DepOn(RefI, <<"p">>), TRUE, TRUE),
      Component(PkgA, TypeB, <<>>, <<>>, DepOn(RefI, <<>>), TRUE, TRUE),
      Component(PkgA, TypeB, <<>>, <<>>, DepOn(<<"I">>, <<"p">>), TRUE, TRUE),
      Component(PkgA, TypeB, <<>>, <<>>,
                <<Dependency(<<"f">>, TypeA, <<>>), Dependency(<<"g">>, RefI, <<"q">>)>>,
                TRUE, TRUE),
      Component(PkgB, TypeA, <<>>, <<>>, DepOn(<<"a", ".", "A">>, <<>>), FALSE, TRUE),
      Component(PkgA, <<"X">>, <<"p">>, <<IfaceI>>, NoDeps, TRUE, FALSE),
      Component(PkgA, <<"Y">>, <<"q">>, <<IfaceI>>, NoDeps, FALSE, FALSE),
      Component(PkgA, <<"Y">>, <<"q">>, <<IfaceI>>, DepOn(RefI, <<"p">>), FALSE, FALSE),
      Component(PkgA, <<"Y">>, <<"q">>, <<IfaceI>>, DepOn(TypeB, <<>>), FALSE, FALSE),
      Component(PkgA, <<"Z">>, <<"p">>, <<IfaceI>>, NoDeps, FALSE, TRUE),
      Component(PkgB, <<"W">>, <<"p">>, <<IfaceI>>, NoDeps, FALSE, FALSE) }

ComponentLists == UNION {[1..n -> ComponentPool] : n \in 0..MaxComps}

componentKey(comp) == comp.Package \o <<Dot>> \o comp.Type

\* ---------------------------------------------------------- Generator.dfs
\* contains(slice, str): some element of slice ends with str
contains(slice, str) == \E i \in 1..Len(slice) : HasSuffix(slice[i], str)

\* a dfs that follows no dependency
dfsVisitsNothing(dep, other) == FALSE

\* a dfs that follows only dependencies named by bare type
dfsVisitsBareTypeOnly(dep, other) == other.Type = dep.Type

\* the condition under which dfs recurses from a dependency into `other`
dfsVisits(dep, other) ==
    IF StrContains(dep.Type, Dot)
    THEN /\ HasSuffix(other.Package, SplitFirst(dep.Type))
         /\ \/ other.Type = SplitSecond(dep.Type)
            \/ contains(other.Implements, SplitSecond(dep.Type))
    ELSE other.Type = dep.Type

\* the panic of dfs: the keys of cyclicMap in map order, then the key again
cyclePathOf(iter, cyclicMap, key) ==
    SelectSeq(iter, LAMBDA k : k \in cyclicMap) \o <<key>>

\* st carries the Generator's visited and cyclicMap, the caller's `ordered`
\* and the panic in flight; iter is the map order the runtime uses
RECURSIVE dfs(_, _, _, _)
RECURSIVE dfsDependencies(_, _, _, _, _, _)

dfsDependencies(components, iter, comp, di, oi, st) ==
    IF st.panic \/ di > Len(comp.Dependencies) THEN st
    ELSE IF oi > Len(components) THEN dfsDependencies(components, iter, comp, di + 1, 1, st)
    ELSE IF dfsVisits(comp.Dependencies[di], components[oi])
         THEN dfsDependencies(components, iter, comp, di, oi + 1,
                              dfs(components, iter, components[oi], st))
         ELSE dfsDependencies(components, iter, comp, di, oi + 1, st)

dfs(components, iter, comp, st) ==
    LET key == componentKey(comp) IN
    IF st.panic THEN st
    ELSE IF key \in st.cyclicMap
    THEN [st EXCEPT !.panic = TRUE, !.cyclePath = cyclePathOf(iter, st.cyclicMap, key)]
    ELSE IF key \in st.visited
    THEN st
    ELSE LET entered == [st EXCEPT !.cyclicMap = @ \cup {key}, !.visited = @ \cup {key}]
             after == dfsDependencies(components, iter, comp, 1, 1, entered)
         IN  IF after.panic
             THEN [after EXCEPT !.cyclicMap = @ \ {key}]
             ELSE [after EXCEPT !.ordered = Append(@, comp), !.cyclicMap = @ \ {key}]

\* ------------------------------------------------ Generator.topologicalSort
RECURSIVE sortPass(_, _, _, _, _)
sortPass(components, iter, leavesOnly, i, st) ==
    IF st.panic \/ i > Len(components) THEN st
    ELSE LET comp == components[i] IN
         IF /\ leavesOnly => Len(comp.Dependencies) = 0
            /\ componentKey(comp) \notin st.visited
         THEN sortPass(components, iter, leavesOnly, i + 1, dfs(components, iter, comp, st))
         ELSE sortPass(components, iter, leavesOnly, i + 1, st)

\* a sort that stops after its first loop, over the components without
\* dependencies
topologicalSortLeavesOnly(components, iter, visited0, cyclicMap0) ==
    sortPass(components, iter, TRUE, 1,
             [visited |-> visited0, cyclicMap |-> cyclicMap0, ordered |-> <<>>,
              panic |-> FALSE, cyclePath |-> <<>>])

\* a sort whose outer loops range over a map of the components by key
topologicalSortOverMap(components, iter, visited0, cyclicMap0) ==
    LET st0 == [visited |-> visited0, cyclicMap |-> cyclicMap0, ordered |-> <<>>,
                panic |-> FALSE, cyclePath |-> <<>>]
        first(key) == CHOOSE i \in 1..Len(components) :
                          /\ componentKey(components[i]) = key
                          /\ \A j \in 1..(i - 1) : componentKey(components[j]) # key
        byKey == [k \in 1..Len(iter) |-> components[first(iter[k])]]
        RECURSIVE pass(_, _, _)
        pass(leavesOnly, i, st) ==
            IF st.panic \/ i > Len(byKey) THEN st
            ELSE IF /\ leavesOnly => Len(byKey[i].Dependencies) = 0
                    /\ componentKey(byKey[i]) \notin st.visited
                 THEN pass(leavesOnly, i + 1, dfs(components, iter, byKey[i], st))
                 ELSE pass(leavesOnly, i + 1, st)
    IN  pass(FALSE, 1, pass(TRUE, 1, st0))

topologicalSort(components, iter, visited0, cyclicMap0) ==
    LET st0 == [visited |-> visited0, cyclicMap |-> cyclicMap0, ordered |-> <<>>,
                panic |-> FALSE, cyclePath |-> <<>>]
    IN  sortPass(components, iter, FALSE, 1, sortPass(components, iter, TRUE, 1, st0))

\* ---------------------------------------- Generator.generateComponentInits
\* first pass: the name given to the i-th component
varNameAt(components, i) ==
    LET count == Cardinality({j \in 1..(i - 1) : components[j].Type = components[i].Type})
    IN  IF count > 0 THEN components[i].Type \o Itoa(count + 1) ELSE components[i].Type

\* the varNames map after the first pass: the last write for a key stays
varNames(components, key) ==
    LET writers == {i \in 1..Len(components) : componentKey(components[i]) = key}
    IN  varNameAt(components, CHOOSE i \in writers : \A j \in writers : j <= i)

implMatches(c, interfaceName, dep) ==
    \E k \in 1..Len(c.Implements) :
        HasSuffix(c.Implements[k], interfaceName) /\ c.Qualifier = dep.Qualifier

\* the interface branch: index of the component whose name ends up in
\* depVarName (0 when none); found is the index written so far
RECURSIVE findImplementation(_, _, _, _)
findImplementation(components, dep, i, found) ==
    IF i > Len(components) THEN found
    ELSE LET c == components[i] IN
         IF HasSuffix(c.Package, SplitFirst(dep.Type))
         THEN IF c.Type = SplitSecond(dep.Type) /\ c.Qualifier = dep.Qualifier
              THEN i
              ELSE findImplementation(components, dep, i + 1,
                       IF implMatches(c, SplitSecond(dep.Type), dep) THEN i ELSE found)
         ELSE findImplementation(components, dep, i + 1, found)

\* the direct branch: the first component of that type
findDirect(components, dep) ==
    LET hits == {i \in 1..Len(components) : components[i].Type = dep.Type}
    IN  IF hits = {} THEN 0 ELSE CHOOSE i \in hits : \A j \in hits : i <= j

\* index in components of the provider a dependency is bound to, 0 when none
findProvider(components, dep) ==
    IF StrContains(dep.Type, Dot)
    THEN findImplementation(components, dep, 1, 0)
    ELSE findDirect(components, dep)

depVarName(components, dep) ==
    LET p == findProvider(components, dep)
    IN  IF p = 0 THEN <<>> ELSE varNames(components, componentKey(components[p]))

componentInitOf(components, i) ==
    LET comp == components[i] IN
    [VarName |-> varNames(components, componentKey(comp)),
     Type |-> comp.Type,
     Package |-> comp.Package,
     Dependencies |-> [d \in 1..Len(comp.Dependencies) |->
                          [FieldName |-> comp.Dependencies[d].FieldName,
                           VarName |-> depVarName(components, comp.Dependencies[d])]],
     Interfaces |-> [k \in 1..Len(comp.Implements) |->
                          [Interface |-> comp.Implements[k],
                           Qualifier |-> comp.Qualifier,
                           VarName |-> varNames(components, componentKey(comp))]],
     PostConstruct |-> comp.PostConstruct,
     PreDestroy |-> comp.PreDestroy]

generateComponentInits(components) ==
    LET unresolved == \E i \in 1..Len(components) :
                         \E d \in 1..Len(components[i].Dependencies) :
                             depVarName(components, components[i].Dependencies[d]) = <<>>
    IN  IF unresolved
        THEN [panic |-> TRUE, inits |-> <<>>]
        ELSE [panic |-> FALSE,
              inits |-> [i \in 1..Len(components) |-> componentInitOf(components, i)]]

\* ------------------------------------------------- Generator.Generate: text
IocPackage == <<"i", "o", "c">>

\* funcMap "base": the part of pkg after its last slash
RECURSIVE LastIndex(_, _, _)
LastIndex(s, ch, from) ==
    IF from = 0 THEN 0
    ELSE IF s[from] = ch THEN from
    ELSE LastIndex(s, ch, from - 1)

base(pkg) == SubSeq(pkg, LastIndex(pkg, "/", Len(pkg)) + 1, Len(pkg))

\* funcMap "iterate": count-1 down to 0
iterate(count) == [i \in 1..count |-> count - i]

\* the import block: a sorted slice without duplicates, held as its set
importable(path) == StrContains(path, "/") /\ path # IocPackage

interfacePackages(comp) ==
    {SubSeq(comp.Implements[k], 1, LastIndex(comp.Implements[k], Dot, Len(comp.Implements[k])) - 1) :
        k \in {j \in 1..Len(comp.Implements) : StrContains(comp.Implements[j], Dot)}}

importsOf(components) ==
    {path \in UNION {{components[i].Package} \cup interfacePackages(components[i]) :
                        i \in 1..Len(components)} : importable(path)}

\* the executed template: the Container fields, the statements of Initialize
\* and the calls of the cleanup closure, each as the names the text uses
wireTemplate(data) ==
    LET comps == data.Components IN
    [Imports |-> data.Imports,
     Container |-> [i \in 1..Len(comps) |->
                      [Field |-> comps[i].Type,
                       Of |-> <<base(comps[i].Package), comps[i].Type>>]],
     Initialize |-> [i \in 1..Len(comps) |->
                      [Field |-> comps[i].Type,
                       New |-> <<base(comps[i].Package), comps[i].Type>>,
                       Dependencies |-> [d \in 1..Len(comps[i].Dependencies) |->
                           [FieldName |-> comps[i].Dependencies[d].FieldName,
                            Ref |-> comps[i].Dependencies[d].VarName]],
                       PostConstruct |-> comps[i].PostConstruct]],
     Cleanup |-> LET calls == SelectSeq(iterate(Len(comps)),
                                        LAMBDA i : comps[i + 1].PreDestroy)
                 IN  [k \in 1..Len(calls) |-> comps[calls[k] + 1].Type]]

\* Generate from the empty-list check on, given what topologicalSort returns
\* (st) on a Generator whose maps were visited0 and cyclicMap0
generateSorted(components, st, visited0, cyclicMap0) ==
    LET none == [failure |-> "", visited |-> visited0, cyclicMap |-> cyclicMap0,
                 ordered |-> <<>>, inits |-> <<>>, cyclePath |-> <<>>, file |-> <<>>]
    IN  IF Len(components) = 0
        THEN [none EXCEPT !.failure = "no components"]
        ELSE LET sorted == [none EXCEPT !.visited = st.visited, !.cyclicMap = st.cyclicMap]
             IN  IF st.panic
                 THEN [sorted EXCEPT !.failure = "cyclic", !.cyclePath = st.cyclePath]
                 ELSE LET r == generateComponentInits(st.ordered) IN
                      IF r.panic
                      THEN [sorted EXCEPT !.failure = "unresolved", !.ordered = st.ordered]
                      ELSE [sorted EXCEPT !.ordered = st.ordered, !.inits = r.inits,
                                !.file = <<wireTemplate([Imports |-> importsOf(components),
                                                         Components |-> r.inits])>>]

\* one call of Generate; iter is the map order the runtime uses
generate(components, iter, visited0, cyclicMap0) ==
    generateSorted(components, topologicalSort(components, iter, visited0, cyclicMap0),
                   visited0, cyclicMap0)

\* ============================================================ ioc.Container
\* strings.ToLower on the letters that occur
Uppers == <<"A", "B", "C", "D", "E", "F", "G", "H", "I", "J", "N", "O", "P", "Q", "R", "Z">>
Lowers == <<"a", "b", "c", "d", "e", "f", "g", "h", "i", "j", "n", "o", "p", "q", "r", "z">>

ToLower(s) ==
    [k \in 1..Len(s) |->
        IF \E u \in 1..Len(Uppers) : Uppers[u] = s[k]
        THEN Lowers[CHOOSE u \in 1..Len(Uppers) : Uppers[u] = s[k]]
        ELSE s[k]]

\* a Go struct type as reflection shows it: package path, name, the name tag
\* of its Component field (hasComponent FALSE when it has no such field), the
\* value tag of its Qualifier field, its implements tags and its autowired
\* fields.  A field type is an interface or a struct (kind "named") or a
\* pointer to a struct (kind "ptr").
AutowiredField(name, kind, pkg, typeName, qualifier) ==
    [name |-> name, kind |-> kind, pkg |-> pkg, typeName |-> typeName, qualifier |-> qualifier]

StructType(pkg, name, hasComponent, nameTag, qualifier, implements, fields) ==
    [pkg |-> pkg, name |-> name, hasComponent |-> hasComponent, nameTag |-> nameTag,
     qualifier |-> qualifier, implements |-> implements, fields |-> fields]

\* reflect.Type.Name() and PkgPath() of a field's type: empty for a pointer
fieldTypeName(f) == IF f.kind = "ptr" THEN <<>> ELSE f.typeName
fieldTypePkgPath(f) == IF f.kind = "ptr" THEN <<>> ELSE f.pkg

NoFields == <<>>
IfaceField(typeName, qualifier) ==
    <<AutowiredField(<<"D", "e", "p">>, "named", PkgA, typeName, qualifier)>>

\* the struct types handed to RegisterComponents: A, B with a field of struct
\* type A, P with a field of type *A, the implementations C and F (qualifier
\* c), D and G (qualifier d, G also needs the unimplemented interface J) of
\* interface I, the consumers E (no qualifier) and Q (qualifier c) of I, R
\* registered under the name of A, Z registered under the name i that also
\* needs I, and N without a Component field
TypePool ==
    { StructType(PkgA, <<"A">>, TRUE, <<>>, <<>>, <<>>, NoFields),
      StructType(PkgA, <<"B">>, TRUE, <<>>, <<>>, <<>>,
                 <<AutowiredField(<<"F">>, "named", PkgA, <<"A">>, <<>>)>>),
      StructType(PkgA, <<"P">>, TRUE, <<>>, <<>>, <<>>,
                 <<AutowiredField(<<"F">>, "ptr", PkgA, <<"A">>, <<>>)>>),
      StructType(PkgA, <<"C">>, TRUE, <<>>, <<"c">>, <<<<"I">>>>, NoFields),
      StructType(PkgA, <<"F">>, TRUE, <<>>, <<"c">>, <<<<"I">>>>, NoFields),
      StructType(PkgA, <<"D">>, TRUE, <<>>, <<"d">>, <<<<"I">>>>, NoFields),
      StructType(PkgA, <<"G">>, TRUE, <<>>, <<"d">>, <<<<"I">>>>, IfaceField(<<"J">>, <<>>)),
      StructType(PkgA, <<"E">>, TRUE, <<>>, <<>>, <<>>, IfaceField(<<"I">>, <<>>)),
      StructType(PkgA, <<"Q">>, TRUE, <<>>, <<>>, <<>>, IfaceField(<<"I">>, <<"c">>)),
      StructType(PkgA, <<"R">>, TRUE, <<"A">>, <<>>, <<>>, NoFields),
      StructType(PkgA, <<"Z">>, TRUE, <<"I">>, <<>>, <<>>, IfaceField(<<"I">>, <<>>)),
      StructType(PkgA, <<"N">>, FALSE, <<>>, <<>>, <<>>, NoFields) }

\* ---------------------------------------------------------- annotations.go
hasComponentAnnotation(t) ==
    [ok |-> t.hasComponent,
     name |-> IF ~t.hasComponent THEN <<>>
              ELSE IF t.nameTag # <<>> THEN ToLower(t.nameTag) ELSE ToLower(t.name)]

getQualifier(t) == t.qualifier

getImplementedInterfaces(t) == t.implements

findDependencies(t) ==
    [k \in 1..Len(t.fields) |->
        [fieldName |-> t.fields[k].name,
         typeName |-> fieldTypeName(t.fields[k]),
         qualifier |-> t.fields[k].qualifier]]

\* ------------------------------------------------------------ container.go
getFullComponentName(pkgPath, name) == ToLower(pkgPath \o <<Dot>> \o name)

getFullInterfaceName(pkgPath, interfaceName) ==
    IF StrContains(interfaceName, Dot) THEN interfaceName
    ELSE pkgPath \o <<Dot>> \o interfaceName

\* a Go map: a function on its keys; m[k] of an absent key is nil
MapPut(m, k, v) == [x \in DOMAIN m \cup {k} |-> IF x = k THEN v ELSE m[x]]
EmptyMap == [x \in {} |-> x]

Error(kind, component, field, type, qualifier, qualifiers) ==
    [kind |-> kind, component |-> component, field |-> field, type |-> type,
     qualifier |-> qualifier, qualifiers |-> qualifiers]

NoError == Error("", <<>>, <<>>, <<>>, <<>>, {})

\* Container.register: c is [definitions, interfaces, ...]; err is set when
\* the type carries no Component field
register(c, t) ==
    LET ann == hasComponentAnnotation(t)
        fullName == getFullComponentName(t.pkg, ann.name)
        impls == getImplementedInterfaces(t)
        fullImplements == [k \in 1..Len(impls) |-> getFullInterfaceName(t.pkg, impls[k])]
        def == [typ |-> t, dependencies |-> findDependencies(t),
                implements |-> fullImplements, qualifier |-> getQualifier(t)]
    IN  IF ~ann.ok
        THEN [c EXCEPT !.err = Error("not a component", <<>>, <<>>, t.name, <<>>, {})]
        ELSE [c EXCEPT !.definitions = MapPut(@, fullName, def),
                       !.interfaces = [x \in DOMAIN @ \cup Range(fullImplements) |->
                                          IF x \in DOMAIN @ THEN @[x] ELSE EmptyMap]]

\* a lookup that hands out some entry when no qualifier is given
lookupAnyEntry(interfaces, fullTypeName, qualifier) ==
    LET known == fullTypeName \in DOMAIN interfaces
        impls == IF known THEN interfaces[fullTypeName] ELSE EmptyMap
    IN  [ambiguous |-> FALSE,
         qualifiers |-> DOMAIN impls,
         found |-> IF qualifier \in DOMAIN impls THEN <<impls[qualifier]>>
                   ELSE IF qualifier = <<>> /\ DOMAIN impls # {}
                   THEN <<impls[CHOOSE q \in DOMAIN impls : TRUE]>>
                   ELSE <<>>]

\* the interface lookup of injectDependencies: with a qualifier the entry
\* of that qualifier; without one the only entry, and the "multiple
\* implementations" error when the interface has another number of entries
lookupInterfaces(interfaces, fullTypeName, qualifier) ==
    LET known == fullTypeName \in DOMAIN interfaces
        impls == IF known THEN interfaces[fullTypeName] ELSE EmptyMap
    IN  [ambiguous |-> qualifier = <<>> /\ known /\ Cardinality(DOMAIN impls) # 1,
         qualifiers |-> DOMAIN impls,
         found |-> IF qualifier # <<>>
                   THEN IF qualifier \in DOMAIN impls THEN <<impls[qualifier]>> ELSE <<>>
                   ELSE IF known /\ Cardinality(DOMAIN impls) = 1
                   THEN <<impls[CHOOSE q \in DOMAIN impls : TRUE]>>
                   ELSE <<>>]

\* an injection that sets no field and reports no failure
injectDependenciesSkipping(c, name, deps, k) == c

\* Container.injectDependencies on the instance `name`: the fields are set
\* one after the other, and the first failure returns with the earlier
\* fields already set.  heap[instance][field] is <<>> while the field is
\* unset, <<"ref", i>> for a reference to instance i and <<"copy", i, v>>
\* for a copy of instance i taken while its fields were v.
RECURSIVE injectDependencies(_, _, _, _)
injectDependencies(c, name, deps, k) ==
    IF k > Len(deps) THEN c
    ELSE
    LET dep == deps[k]
        field == c.definitions[name].typ.fields[k]
        fullTypeName == getFullInterfaceName(fieldTypePkgPath(field), dep.typeName)
        lookup == lookupInterfaces(c.interfaces, fullTypeName, dep.qualifier)
        depName == getFullComponentName(field.pkg, dep.typeName)
        dependency ==
            IF lookup.found # <<>> THEN lookup.found
            ELSE IF depName \in DOMAIN c.components THEN <<c.components[depName]>>
            ELSE <<>>
        provider == c.definitions[dependency[1]].typ
        byValue == field.kind = "named" /\ provider.pkg = field.pkg /\ provider.name = field.typeName
        assignable ==
            \/ byValue
            \/ field.kind = "ptr" /\ provider.pkg = field.pkg /\ provider.name = field.typeName
            \/ /\ field.kind = "named"
               /\ getFullInterfaceName(field.pkg, field.typeName)
                      \in Range(c.definitions[dependency[1]].implements)
        value == IF byValue THEN <<"copy", dependency[1], c.heap[dependency[1]]>>
                 ELSE <<"ref", dependency[1]>>
    IN  IF lookup.ambiguous
        THEN [c EXCEPT !.err = Error("multiple implementations", name, dep.fieldName,
                                     fullTypeName, dep.qualifier, lookup.qualifiers)]
        ELSE IF dependency = <<>>
        THEN [c EXCEPT !.err = Error("dependency not found", name, dep.fieldName,
                                     fullTypeName, dep.qualifier, {})]
        ELSE IF ~assignable
        THEN [c EXCEPT !.err = Error("panic", name, dep.fieldName, fullTypeName,
                                     dep.qualifier, {})]
        ELSE injectDependencies([c EXCEPT !.heap[name][dep.fieldName] = value,
                                          !.injections = Append(@, name)],
                                name, deps, k + 1)

\* Container.dfsResolve.  The recursion has no mark for a component whose
\* dependencies are still being resolved; `stack` holds the calls in
\* progress, and a call for a component that is on it recurses without end.
\* injectCalls is the history of the calls of injectDependencies: the
\* component and the visited marks at the time of the call.
RECURSIVE dfsResolve(_, _, _)
RECURSIVE dfsResolveDependencies(_, _, _, _)

dfsResolveDependencies(c, name, stack, k) ==
    LET def == c.definitions[name] IN
    IF c.err # NoError \/ k > Len(def.dependencies) THEN c
    ELSE LET depName == getFullComponentName(def.typ.fields[k].pkg, def.dependencies[k].typeName)
         IN  IF depName \in DOMAIN c.definitions
             THEN dfsResolveDependencies(dfsResolve(c, depName, stack), name, stack, k + 1)
             ELSE dfsResolveDependencies(c, name, stack, k + 1)

\* a dfsResolve that marks no component as visited
dfsResolveUnmarked(c, name, stack) ==
    IF name \in c.visited THEN c
    ELSE IF name \notin DOMAIN c.definitions
    THEN [c EXCEPT !.err = Error("definition not found", name, <<>>, <<>>, <<>>, {})]
    ELSE IF name \in stack
    THEN [c EXCEPT !.err = Error("unbounded recursion", name, <<>>, <<>>, <<>>, {})]
    ELSE LET resolved == dfsResolveDependencies(c, name, stack \cup {name}, 1) IN
         IF resolved.err # NoError THEN resolved
         ELSE injectDependencies(
                  [resolved EXCEPT !.injectCalls =
                      Append(@, [name |-> name, visited |-> resolved.visited])],
                  name, c.definitions[name].dependencies, 1)

dfsResolve(c, name, stack) ==
    IF name \in c.visited THEN c
    ELSE IF name \notin DOMAIN c.definitions
    THEN [c EXCEPT !.err = Error("definition not found", name, <<>>, <<>>, <<>>, {})]
    ELSE IF name \in stack
    THEN [c EXCEPT !.err = Error("unbounded recursion", name, <<>>, <<>>, <<>>, {})]
    ELSE LET resolved == dfsResolveDependencies(c, name, stack \cup {name}, 1) IN
         IF resolved.err # NoError THEN resolved
         ELSE LET called == [resolved EXCEPT !.injectCalls =
                                Append(@, [name |-> name, visited |-> resolved.visited])]
                  injected == injectDependencies(called, name,
                                                 c.definitions[name].dependencies, 1)
              IN  IF injected.err # NoError THEN injected
                  ELSE [injected EXCEPT !.visited = @ \cup {name}]

\* Container.resolve, first pass: one instance per definition, named after
\* its definition, and the interface index, where the definition ranged over
\* last keeps an (interface, qualifier) entry
firstPass(c, iter) ==
    LET names == DOMAIN c.definitions
        ifaces == UNION {Range(c.definitions[n].implements) : n \in names}
        claimants(i, q) == {k \in 1..Len(iter) :
                               /\ i \in Range(c.definitions[iter[k]].implements)
                               /\ c.definitions[iter[k]].qualifier = q}
        last(S) == CHOOSE k \in S : \A l \in S : l <= k
    IN  [c EXCEPT !.visited = {},
                  !.components = [n \in names |-> n],
                  !.heap = [n \in names |->
                               [f \in {c.definitions[n].typ.fields[k].name :
                                          k \in 1..Len(c.definitions[n].typ.fields)} |-> <<>>]],
                  !.interfaces = [i \in ifaces |->
                      [q \in {c.definitions[n].qualifier :
                                 n \in {m \in names : i \in Range(c.definitions[m].implements)}}
                          |-> iter[last(claimants(i, q))]]]]

\* second pass: dfsResolve for every definition not yet visited, in map order
RECURSIVE secondPass(_, _, _)
secondPass(c, iter, k) ==
    IF c.err # NoError \/ k > Len(iter) THEN c
    ELSE secondPass(dfsResolve(c, iter[k], {}), iter, k + 1)

RECURSIVE registerEach(_, _, _)
registerEach(c, types, k) ==
    IF c.err # NoError \/ k > Len(types) THEN c
    ELSE registerEach(register(c, types[k]), types, k + 1)

\* NewContainer()
newContainer ==
    [components |-> EmptyMap, definitions |-> EmptyMap, interfaces |-> EmptyMap,
     visited |-> {}, heap |-> EmptyMap, injections |-> <<>>, injectCalls |-> <<>>,
     err |-> NoError]

\* a Get that remembers the name it was asked for
GetCaching(c, iter, name) ==
    LET lower == ToLower(name)
        hits == SelectSeq(iter, LAMBDA n : HasSuffix(n, <<Dot>> \o lower))
    IN  IF lower \in DOMAIN c.components \/ hits = <<>>
        THEN [c |-> c,
              result |-> IF lower \in DOMAIN c.components THEN <<c.components[lower]>>
                         ELSE <<>>]
        ELSE [c |-> [c EXCEPT !.components = MapPut(@, lower, c.components[hits[1]])],
              result |-> <<c.components[hits[1]]>>]

\* Container.Get: the component stored under the lower-cased name, else the
\* first component, in the map order iter, whose full name ends with "."
\* and the lower-cased name; <<>> is nil.  The container is handed back as
\* the call leaves it.
Get(c, iter, name) ==
    LET lower == ToLower(name)
        hits == SelectSeq(iter, LAMBDA n : HasSuffix(n, <<Dot>> \o lower))
    IN  [c |-> c,
         result |-> IF lower \in DOMAIN c.components THEN <<c.components[lower]>>
                    ELSE IF hits # <<>> THEN <<c.components[hits[1]]>>
                    ELSE <<>>]

\* Container.GetQualified: the entry of the interface index under exactly
\* this interface name and qualifier
GetQualified(c, interfaceName, qualifier) ==
    [c |-> c,
     result |-> IF interfaceName \in DOMAIN c.interfaces
                THEN IF qualifier \in DOMAIN c.interfaces[interfaceName]
                     THEN <<c.interfaces[interfaceName][qualifier]>>
                     ELSE <<>>
                ELSE <<>>]

\* ------------------------------- DependencyAnalyzer.FindUnusedComponents
\* parts[len(parts)-1] of strings.Split(s, sep)
LastPart(s, sep) == SubSeq(s, LastIndex(s, sep, Len(s)) + 1, Len(s))

\* the body of findDependencyComponents' loop: comp is appended to matches
\* for a direct match on the type or the key, or when dep.Type has a dot and
\* some declared interface, cut after its last slash, is the part of
\* dep.Type after its last dot; the qualifiers have to be equal in both
dependencyMatches(comp, dep) ==
    \/ /\ comp.Type = dep.Type \/ componentKey(comp) = dep.Type
       /\ comp.Qualifier = dep.Qualifier
    \/ /\ StrContains(dep.Type, Dot)
       /\ \E k \in 1..Len(comp.Implements) :
             /\ LastPart(comp.Implements[k], "/") = LastPart(dep.Type, Dot)
             /\ comp.Qualifier = dep.Qualifier

\* a search that stops at the first component satisfying the dependency
findFirstDependencyComponent(comps, dep) ==
    LET matchesDep(comp) == dependencyMatches(comp, dep)
        matches == SelectSeq(comps, matchesDep)
    IN  IF matches = <<>> THEN <<>> ELSE <<Head(matches)>>

\* a.findDependencyComponents(dep): every satisfying component, in order
findDependencyComponents(comps, dep) ==
    LET matchesDep(comp) == dependencyMatches(comp, dep)
    IN  SelectSeq(comps, matchesDep)

\* a.FindUnusedComponents(): the keys of all components satisfying some
\* dependency are marked used, then the components whose key is not marked
\* are collected in order
FindUnusedComponents(comps) ==
    LET deps == UNION {{comps[i].Dependencies[d] : d \in 1..Len(comps[i].Dependencies)} :
                          i \in 1..Len(comps)}
        satisfying == UNION {{findDependencyComponents(comps, dep)[k] :
                                 k \in 1..Len(findDependencyComponents(comps, dep))} :
                                dep \in deps}
        used == {componentKey(c) : c \in satisfying}
        isUnused(comp) == componentKey(comp) \notin used
    IN  SelectSeq(comps, isUnused)

\* a report of every component that has a dependency, satisfied or not
FindDependentComponents(comps) ==
    LET hasDep(comp) == Len(comp.Dependencies) > 0
    IN  SelectSeq(comps, hasDep)

\* a.FindOrphanedComponents(): the components with a dependency that no
\* component satisfies, in order
FindOrphanedComponents(comps) ==
    LET hasUnsatisfiedDep(comp) ==
            \E d \in 1..Len(comp.Dependencies) :
                Len(findDependencyComponents(comps, comp.Dependencies[d])) = 0
    IN  SelectSeq(comps, hasUnsatisfiedDep)

\* ----------------------------- DependencyAnalyzer.FindQualifierConflicts
\* the (interface, qualifier, component key) triples in the order in which
\* the first loop appends them to qualifierMap
RECURSIVE implementations(_, _)
implementations(comps, i) ==
    IF i > Len(comps) THEN <<>>
    ELSE [k \in 1..Len(comps[i].Implements) |->
             <<comps[i].Implements[k], comps[i].Qualifier, componentKey(comps[i])>>]
         \o implementations(comps, i + 1)

\* the (interface, qualifier) pairs that have an entry in qualifierMap
qualifierPairs(comps) ==
    {<<e[1], e[2]>> : e \in Range(implementations(comps, 1))}

\* qualifierMap[iface][qualifier]
qualifierMap(comps, pair) ==
    LET ofPair == SelectSeq(implementations(comps, 1),
                            LAMBDA e : e[1] = pair[1] /\ e[2] = pair[2])
    IN  [k \in 1..Len(ofPair) |-> ofPair[k][3]]

\* the orders in which the nested range loops can meet the pairs: the
\* qualifiers of one interface follow each other
nestedOrders(pairs) ==
    {f \in Orders(pairs) :
        \A i, j, k \in 1..Cardinality(pairs) :
            (i < j /\ j < k /\ f[i][1] = f[k][1]) => f[j][1] = f[i][1]}

\* a.FindQualifierConflicts(); iter is the order of the nested range loops
FindQualifierConflicts(comps, iter) ==
    LET conflicting == SelectSeq(iter, LAMBDA pair : Len(qualifierMap(comps, pair)) > 1)
    IN  [k \in 1..Len(conflicting) |->
            [Interface |-> conflicting[k][1], Qualifier |-> conflicting[k][2],
             Conflicting |-> qualifierMap(comps, conflicting[k]),
             Severity |-> IF conflicting[k][2] = <<>> THEN "WARNING" ELSE "ERROR"]]

\* --------------------------- DependencyAnalyzer.CalculateDependencyDepth
\* st carries the maps depths and calculating and the value returned by the
\* last call (ret).  A call nested deeper than there are components has
\* entered a key that is still being calculated: the recursion no longer
\* ends, which st.overflow records.
RECURSIVE calculateDepth(_, _, _, _)
RECURSIVE calculateDepthOver(_, _, _, _, _, _, _)

\* the loops of calculateDepth over comp's dependencies (di) and the
\* components satisfying each (mi), with the running maxDepth
calculateDepthOver(comps, comp, di, mi, maxDepth, st, nesting) ==
    LET key == componentKey(comp)
        done == [st EXCEPT !.calculating = @ \ {key}]
    IN  IF st.overflow THEN st
        ELSE IF di > Len(comp.Dependencies)
        THEN [done EXCEPT !.depths = (key :> maxDepth) @@ @, !.ret = maxDepth]
        ELSE LET depComponents == findDependencyComponents(comps, comp.Dependencies[di]) IN
             IF mi > Len(depComponents)
             THEN calculateDepthOver(comps, comp, di + 1, 1, maxDepth, st, nesting)
             ELSE LET after == calculateDepth(comps, depComponents[mi], st, nesting + 1) IN
                  IF after.overflow THEN after
                  ELSE IF after.ret = -1
                  THEN [after EXCEPT !.calculating = @ \ {key},
                                     !.depths = (key :> -1) @@ @, !.ret = -1]
                  ELSE calculateDepthOver(comps, comp, di, mi + 1,
                           IF after.ret >= maxDepth THEN after.ret + 1 ELSE maxDepth,
                           after, nesting)

\* a calculateDepth without the calculating mark
calculateDepthUnmarked(comps, comp, st, nesting) ==
    LET key == componentKey(comp) IN
    IF nesting > Len(comps) + 1 THEN [st EXCEPT !.overflow = TRUE]
    ELSE IF key \in DOMAIN st.depths THEN [st EXCEPT !.ret = st.depths[key]]
    ELSE calculateDepthOver(comps, comp, 1, 1, 0, st, nesting)

calculateDepth(comps, comp, st, nesting) ==
    LET key == componentKey(comp) IN
    IF nesting > Len(comps) + 1 THEN [st EXCEPT !.overflow = TRUE]
    ELSE IF key \in DOMAIN st.depths THEN [st EXCEPT !.ret = st.depths[key]]
    ELSE IF key \in st.calculating THEN [st EXCEPT !.ret = -1]
    ELSE calculateDepthOver(comps, comp, 1, 1, 0,
                            [st EXCEPT !.calculating = @ \cup {key}], nesting)

RECURSIVE calculateEach(_, _, _)
calculateEach(comps, i, st) ==
    IF st.overflow \/ i > Len(comps) THEN st
    ELSE calculateEach(comps, i + 1, calculateDepth(comps, comps[i], st, 1))

\* a.CalculateDependencyDepth(): depths, and whether the calls returned
CalculateDependencyDepth(comps) ==
    LET st == calculateEach(comps, 1, [depths |-> <<>>, calculating |-> {},
                                       ret |-> 0, overflow |-> FALSE])
    IN  [depths |-> st.depths, returned |-> ~st.overflow]

\* --------------------------- DependencyAnalyzer.FindCircularDependencies
\* index of the first element of path equal to key, 0 when there is none
cycleStart(path, key) ==
    LET at == {i \in 1..Len(path) : path[i] = key}
    IN  IF at = {} THEN 0 ELSE CHOOSE i \in at : \A j \in at : i <= j

\* st carries the maps visited and recStack and the path returned by the
\* last call (ret, <<>> for nil).  A call nested deeper than there are
\* components has entered a key twice: st.overflow records that the
\* recursion no longer ends.
RECURSIVE dfsCircular(_, _, _, _, _)
RECURSIVE dfsCircularOver(_, _, _, _, _, _, _)

\* the loops of dfsCircular over comp's dependencies (di) and the components
\* satisfying each (mi); path ends with comp's key
dfsCircularOver(comps, comp, di, mi, st, path, nesting) ==
    IF st.overflow THEN st
    ELSE IF di > Len(comp.Dependencies)
    THEN [st EXCEPT !.recStack = @ \ {componentKey(comp)}, !.ret = <<>>]
    ELSE LET depComponents == findDependencyComponents(comps, comp.Dependencies[di]) IN
         IF mi > Len(depComponents)
         THEN dfsCircularOver(comps, comp, di + 1, 1, st, path, nesting)
         ELSE LET depKey == componentKey(depComponents[mi]) IN
              IF depKey \notin st.visited
              THEN LET after == dfsCircular(comps, depComponents[mi], st, path, nesting + 1)
                   IN  IF after.overflow \/ Len(after.ret) > 0 THEN after
                       ELSE dfsCircularOver(comps, comp, di, mi + 1, after, path, nesting)
              ELSE IF depKey \in st.recStack /\ cycleStart(path, depKey) # 0
              THEN [st EXCEPT !.ret = SubSeq(path, cycleStart(path, depKey), Len(path))
                                         \o <<depKey>>]
              ELSE dfsCircularOver(comps, comp, di, mi + 1, st, path, nesting)

dfsCircular(comps, comp, st, path, nesting) ==
    LET key == componentKey(comp)
        entered == [st EXCEPT !.visited = @ \cup {key}, !.recStack = @ \cup {key}]
    IN  IF nesting > Len(comps) + 1 THEN [st EXCEPT !.overflow = TRUE]
        ELSE dfsCircularOver(comps, comp, 1, 1, entered, Append(path, key), nesting)

RECURSIVE findCircularEach(_, _, _)
findCircularEach(comps, i, st) ==
    IF st.overflow \/ i > Len(comps) THEN st
    ELSE IF componentKey(comps[i]) \in st.visited THEN findCircularEach(comps, i + 1, st)
    ELSE LET after == dfsCircular(comps, comps[i], st, <<>>, 1) IN
         findCircularEach(comps, i + 1,
             IF Len(after.ret) > 0
             THEN [after EXCEPT !.cycles = Append(@, [Path |-> after.ret])]
             ELSE after)

\* a.FindCircularDependencies(): cycles, and whether the calls returned
FindCircularDependencies(comps) ==
    LET st == findCircularEach(comps, 1, [visited |-> {}, recStack |-> {}, ret |-> <<>>,
                                          cycles |-> <<>>, overflow |-> FALSE])
    IN  [cycles |-> st.cycles, returned |-> ~st.overflow]

\* ----------------------- DependencyAnalyzer.PerformComprehensiveAnalysis
RECURSIVE countTotalDependencies(_, _)
countTotalDependencies(comps, i) ==
    IF i > Len(comps) THEN 0
    ELSE Len(comps[i].Dependencies) + countTotalDependencies(comps, i + 1)

groupComponentsByPackage(comps) ==
    [pkg \in {comps[i].Package : i \in 1..Len(comps)} |->
        SelectSeq(comps, LAMBDA comp : comp.Package = pkg)]

\* the dependency types with a dot: the keys of usedInterfaces
usedInterfaces(comps) ==
    {dep.Type : dep \in {d \in UNION {Range(comps[i].Dependencies) : i \in 1..Len(comps)} :
                            StrContains(d.Type, Dot)}}

\* a.AnalyzeInterfaces(); iter is the order of the range over usedInterfaces
AnalyzeInterfaces(comps, iter) ==
    LET entries == implementations(comps, 1)
        ifaces == {e[1] : e \in Range(entries)}
        interfaceImpls ==
            [iface \in ifaces |->
                LET of == SelectSeq(entries, LAMBDA e : e[1] = iface)
                IN  [k \in 1..Len(of) |-> of[k][3]]]
        multi == {iface \in ifaces : Len(interfaceImpls[iface]) > 1}
    IN  [TotalInterfaces |-> Cardinality(ifaces),
         InterfacesWithMultiImpl |-> [iface \in multi |-> interfaceImpls[iface]],
         InterfacesWithNoImpl |-> SelectSeq(iter, LAMBDA iface : iface \notin ifaces),
         ImplementationCount |-> [iface \in ifaces |-> Len(interfaceImpls[iface])]]

\* a.PerformComprehensiveAnalysis(); iterU and iterQ are the orders of the
\* ranges over usedInterfaces and qualifierMap.  It returns when
\* FindCircularDependencies and CalculateDependencyDepth do.
PerformComprehensiveAnalysis(comps, iterU, iterQ) ==
    [TotalComponents |-> Len(comps),
     TotalDependencies |-> countTotalDependencies(comps, 1),
     ComponentsByPackage |-> groupComponentsByPackage(comps),
     CircularDependencies |-> FindCircularDependencies(comps).cycles,
     UnusedComponents |-> FindUnusedComponents(comps),
     OrphanedComponents |-> FindOrphanedComponents(comps),
     InterfaceAnalysis |-> AnalyzeInterfaces(comps, iterU),
     QualifierConflicts |-> FindQualifierConflicts(comps, iterQ),
     DependencyDepth |-> CalculateDependencyDepth(comps).depths,
     returned |-> /\ FindCircularDependencies(comps).returned
                  /\ CalculateDependencyDepth(comps).returned]

\* ------------------------------------------------------------------ state
VARIABLES
    components,   \* Generator.components
    visited,      \* Generator.visited, a set of keys
    cyclicMap,    \* Generator.cyclicMap, a set of keys
    pc,           \* "new" before Generate, "done" after it returned or panicked
    failure,      \* "" or the failure Generate ended with
    ordered,      \* orderedComponents of the last Generate
    inits,        \* inits of the last Generate
    cyclePath,    \* the dependency path of a cyclic-dependency panic
    wireGen,      \* wire/wire_gen.go: <<>> when absent, else <<text>>
    runs,         \* number of Generators created on this input
    prev,         \* results of the earlier runs
    types,        \* the struct types passed to RegisterComponents
    container,    \* the Container: its four maps, the fields of its instances, its error
    cpc,          \* "new" before RegisterComponents, "done" after it returned
    call,         \* the last Get or GetQualified call: its arguments and result
    analyzed,     \* DependencyAnalyzer.components
    unused,       \* the result of the last FindUnusedComponents
    apc,          \* "new" before FindUnusedComponents, "done" after it returned
    acall,        \* the analyzer method the program called, "" before the call
    orphaned,     \* the result of FindOrphanedComponents
    conflicts,    \* the result of FindQualifierConflicts
    depths,       \* the result of CalculateDependencyDepth, and whether it returned
    cycles,       \* the result of FindCircularDependencies, and whether it returned
    result        \* the result of PerformComprehensiveAnalysis: <<>> or <<*AnalysisResult>>

genVars == <<components, visited, cyclicMap, pc, failure, ordered, inits, cyclePath,
             wireGen, runs, prev>>

conVars == <<types, container, cpc, call>>

anaVars == <<analyzed, unused, apc, acall, orphaned, conflicts, depths, cycles, result>>

vars == <<genVars, conVars, anaVars>>

KeysOf(comps) == {componentKey(comps[i]) : i \in 1..Len(comps)}

\* NewGenerator(components)
NewGeneratorState ==
    /\ visited = {}
    /\ cyclicMap = {}
    /\ pc = "new"
    /\ failure = ""
    /\ ordered = <<>>
    /\ inits = <<>>
    /\ cyclePath = <<>>

\* no lookup was made yet
NoCall == [op |-> "", name |-> <<>>, qualifier |-> <<>>, result |-> <<>>]

\* no method of the analyzer was called; no analyzer was created
NoAnalysis ==
    /\ unused = <<>>
    /\ apc = "new"
    /\ acall = ""
    /\ orphaned = <<>>
    /\ conflicts = <<>>
    /\ depths = [depths |-> <<>>, returned |-> FALSE]
    /\ cycles = [cycles |-> <<>>, returned |-> FALSE]
    /\ result = <<>>

NoAnalyzer ==
    /\ analyzed = <<>>
    /\ NoAnalysis

NoContainer ==
    /\ types = <<>>
    /\ container = newContainer
    /\ cpc = "new"
    /\ call = NoCall

Init ==
    /\ components \in ComponentLists
    /\ NewGeneratorState
    /\ wireGen = <<>>
    /\ runs = 1
    /\ prev = <<>>
    /\ NoContainer
    /\ NoAnalyzer

Generate ==
    /\ pc = "new"
    /\ \E r \in {generate(components, iter, visited, cyclicMap) :
                    iter \in Orders(KeysOf(components))} :
          /\ visited' = r.visited
          /\ cyclicMap' = r.cyclicMap
          /\ failure' = r.failure
          /\ ordered' = r.ordered
          /\ inits' = r.inits
          /\ cyclePath' = r.cyclePath
          /\ wireGen' = IF r.failure = "" THEN r.file ELSE wireGen
    /\ pc' = "done"
    /\ UNCHANGED <<components, runs, prev, conVars, anaVars>>

\* a second resolution run over the same list, on a fresh Generator
NewGenerator ==
    /\ pc = "done"
    /\ runs < MaxRuns
    /\ prev' = Append(prev, [failure |-> failure, ordered |-> ordered, inits |-> inits,
                             file |-> wireGen])
    /\ runs' = runs + 1
    /\ visited' = {}
    /\ cyclicMap' = {}
    /\ pc' = "new"
    /\ failure' = ""
    /\ ordered' = <<>>
    /\ inits' = <<>>
    /\ cyclePath' = <<>>
    /\ UNCHANGED <<components, wireGen, conVars, anaVars>>

Next == Generate \/ NewGenerator

\* a second call of Generate on the same Generator: visited and cyclicMap
\* are as the call before left them
GenerateAgain ==
    /\ pc = "done"
    /\ Len(prev) < MaxRuns - 1
    /\ prev' = Append(prev, [failure |-> failure, ordered |-> ordered, inits |-> inits,
                             file |-> wireGen])
    /\ \E r \in {generate(components, iter, visited, cyclicMap) :
                    iter \in Orders(KeysOf(components))} :
          /\ visited' = r.visited
          /\ cyclicMap' = r.cyclicMap
          /\ failure' = r.failure
          /\ ordered' = r.ordered
          /\ inits' = r.inits
          /\ cyclePath' = r.cyclePath
          /\ wireGen' = IF r.failure = "" THEN r.file ELSE wireGen
    /\ UNCHANGED <<components, pc, runs, conVars, anaVars>>

RerunNext == Generate \/ GenerateAgain

RerunSpec == Init /\ [][RerunNext]_vars

Spec == Init /\ [][Next]_vars

\* ------------------------------------------------- the runtime container
NoGenerator ==
    /\ components = <<>>
    /\ NewGeneratorState
    /\ wireGen = <<>>
    /\ runs = 1
    /\ prev = <<>>

ContainerInit ==
    /\ types \in UNION {[1..n -> TypePool] : n \in 1..MaxTypes}
    /\ container = newContainer
    /\ cpc = "new"
    /\ call = NoCall
    /\ NoGenerator
    /\ NoAnalyzer

\* RegisterComponents(types...): register each, then resolve; each of the
\* two loops of resolve ranges over the definitions in an order of its own
RegisterComponents ==
    /\ cpc = "new"
    /\ LET registered == registerEach(container, types, 1)
           names == DOMAIN registered.definitions
       IN  IF registered.err # NoError
           THEN container' = registered
           ELSE \E first \in {firstPass(registered, iter1) : iter1 \in Orders(names)} :
                    \E iter2 \in Orders(names) :
                        container' = secondPass(first, iter2, 1)
    /\ cpc' = "done"
    /\ UNCHANGED <<types, call, genVars, anaVars>>

ContainerNext == RegisterComponents

ContainerSpec == ContainerInit /\ [][ContainerNext]_vars

\* ------------------------------------------- lookups in the runtime container
\* the struct types of the lookup runs: A in package m/a and A in package
\* m/b (one short name, two full names), the implementations C (qualifier c)
\* and D (qualifier d) of interface m/a.I, the consumer Q of I with
\* qualifier c, H with a field for I (qualifier c) followed by a field for
\* the unimplemented interface J, and N without a Component field
LookupPool ==
    { StructType(PkgA, <<"A">>, TRUE, <<>>, <<>>, <<>>, NoFields),
      StructType(PkgB, <<"A">>, TRUE, <<>>, <<>>, <<>>, NoFields),
      StructType(PkgA, <<"C">>, TRUE, <<>>, <<"c">>, <<<<"I">>>>, NoFields),
      StructType(PkgA, <<"D">>, TRUE, <<>>, <<"d">>, <<<<"I">>>>, NoFields),
      StructType(PkgA, <<"Q">>, TRUE, <<>>, <<>>, <<>>, IfaceField(<<"I">>, <<"c">>)),
      StructType(PkgA, <<"H">>, TRUE, <<>>, <<>>, <<>>,
                 <<AutowiredField(<<"D", "e", "p">>, "named", PkgA, <<"I">>, <<"c">>),
                   AutowiredField(<<"O">>, "named", PkgA, <<"J">>, <<>>)>>),
      StructType(PkgA, <<"N">>, FALSE, <<>>, <<>>, <<>>, NoFields) }

LookupInit ==
    /\ types \in UNION {[1..n -> LookupPool] : n \in 1..MaxLookupTypes}
    /\ container = newContainer
    /\ cpc = "new"
    /\ call = NoCall
    /\ NoGenerator
    /\ NoAnalyzer

\* a caller's Get(name) after RegisterComponents returned; the range over
\* c.components takes a map order of its own in every call
CallGet ==
    /\ cpc = "done"
    /\ \E name \in {<<"A">>, <<"Q">>, <<"H">>, PkgA \o <<Dot, "A">>} :
          \E r \in {Get(container, iter, name) : iter \in Orders(DOMAIN container.components)} :
              /\ container' = r.c
              /\ call' = [op |-> "Get", name |-> name, qualifier |-> <<>>, result |-> r.result]
    /\ UNCHANGED <<types, cpc, genVars, anaVars>>

\* a caller's GetQualified(interfaceName, qualifier)
CallGetQualified ==
    /\ cpc = "done"
    /\ \E interfaceName \in {<<"I">>, IfaceI} : \E qualifier \in {<<"c">>, <<"d">>} :
          LET r == GetQualified(container, interfaceName, qualifier) IN
          /\ container' = r.c
          /\ call' = [op |-> "GetQualified", name |-> interfaceName,
                      qualifier |-> qualifier, result |-> r.result]
    /\ UNCHANGED <<types, cpc, genVars, anaVars>>

LookupNext == RegisterComponents \/ CallGet \/ CallGetQualified

LookupSpec == LookupInit /\ [][LookupNext]_vars

\* ------------------------------------------------- the dependency analyzer
\* the declarations handed to NewAnalyzer: a plain A, an A that depends on
\* itself, B depending on A or on interface a.I with qualifier p, R (used by
\* nothing) depending on B or on a.I without qualifier, the implementations
\* X and Z (qualifier p) of I declared by its bare name (recorded as m/a/I),
\* Y (qualifier q) declaring m/a.I, W (qualifier q) implementing I and
\* depending on I with qualifier p (a decorator), U and V implementing I
\* without a qualifier, and an A in package m/b that names m/a.A by its key
IfaceISlash == <<"m", "/", "a", "/", "I">>

AnalyzerPool ==
    { Component(PkgA, TypeA, <<>>, <<>>, NoDeps, FALSE, FALSE),
      Component(PkgA, TypeA, <<>>, <<>>, DepOn(TypeA, <<>>), FALSE, FALSE),
      Component(PkgA, TypeB, <<>>, <<>>, DepOn(TypeA, <<>>), FALSE, FALSE),
      Component(PkgA, TypeB, <<>>, <<>>, DepOn(RefI, <<"p">>), FALSE, FALSE),
      Component(PkgA, <<"R">>, <<>>, <<>>, DepOn(TypeB, <<>>), FALSE, FALSE),
      Component(PkgA, <<"R">>, <<>>, <<>>, DepOn(RefI, <<>>), FALSE, FALSE),
      Component(PkgA, <<"X">>, <<"p">>, <<IfaceISlash>>, NoDeps, FALSE, FALSE),
      Component(PkgA, <<"Z">>, <<"p">>, <<IfaceISlash>>, NoDeps, FALSE, FALSE),
      Component(PkgA, <<"Y">>, <<"q">>, <<IfaceI>>, NoDeps, FALSE, FALSE),
      Component(PkgA, <<"W">>, <<"q">>, <<IfaceISlash>>, DepOn(RefI, <<"p">>), FALSE, FALSE),
      Component(PkgA, <<"U">>, <<>>, <<IfaceISlash>>, NoDeps, FALSE, FALSE),
      Component(PkgA, <<"V">>, <<>>, <<IfaceISlash>>, NoDeps, FALSE, FALSE),
      Component(PkgB, TypeA, <<>>, <<>>, DepOn(PkgA \o <<Dot>> \o TypeA, <<>>), FALSE, FALSE) }

\* NewAnalyzer(components)
AnalyzerInit ==
    /\ analyzed \in UNION {[1..n -> AnalyzerPool] : n \in 0..MaxComps}
    /\ NoAnalysis
    /\ NoGenerator
    /\ NoContainer

\* unused := analyzer.FindUnusedComponents()
CallFindUnusedComponents ==
    /\ apc = "new"
    /\ acall = ""
    /\ unused' = FindUnusedComponents(analyzed)
    /\ apc' = "done"
    /\ acall' = "FindUnusedComponents"
    /\ UNCHANGED <<analyzed, orphaned, conflicts, depths, cycles, result, genVars, conVars>>

\* orphaned := analyzer.FindOrphanedComponents()
CallFindOrphanedComponents ==
    /\ acall = ""
    /\ orphaned' = FindOrphanedComponents(analyzed)
    /\ acall' = "FindOrphanedComponents"
    /\ UNCHANGED <<analyzed, unused, apc, conflicts, depths, cycles, result, genVars, conVars>>

\* conflicts := analyzer.FindQualifierConflicts()
CallFindQualifierConflicts ==
    /\ acall = ""
    /\ \E r \in {FindQualifierConflicts(analyzed, iter) :
                    iter \in nestedOrders(qualifierPairs(analyzed))} :
          conflicts' = r
    /\ acall' = "FindQualifierConflicts"
    /\ UNCHANGED <<analyzed, unused, apc, orphaned, depths, cycles, result, genVars, conVars>>

\* depths := analyzer.CalculateDependencyDepth()
CallCalculateDependencyDepth ==
    /\ acall = ""
    /\ depths' = CalculateDependencyDepth(analyzed)
    /\ acall' = "CalculateDependencyDepth"
    /\ UNCHANGED <<analyzed, unused, apc, orphaned, conflicts, cycles, result, genVars, conVars>>

\* cycles := analyzer.FindCircularDependencies()
CallFindCircularDependencies ==
    /\ acall = ""
    /\ cycles' = FindCircularDependencies(analyzed)
    /\ acall' = "FindCircularDependencies"
    /\ UNCHANGED <<analyzed, unused, apc, orphaned, conflicts, depths, result, genVars, conVars>>

\* result := analyzer.PerformComprehensiveAnalysis()
CallPerformComprehensiveAnalysis ==
    /\ acall = ""
    /\ \E r \in {PerformComprehensiveAnalysis(analyzed, iterU, iterQ) :
                    iterU \in Orders(usedInterfaces(analyzed)),
                    iterQ \in nestedOrders(qualifierPairs(analyzed))} :
          result' = <<r>>
    /\ acall' = "PerformComprehensiveAnalysis"
    /\ UNCHANGED <<analyzed, unused, apc, orphaned, conflicts, depths, cycles, genVars, conVars>>

AnalyzerNext ==
    \/ CallFindUnusedComponents
    \/ CallFindOrphanedComponents
    \/ CallFindQualifierConflicts
    \/ CallCalculateDependencyDepth
    \/ CallFindCircularDependencies
    \/ CallPerformComprehensiveAnalysis

AnalyzerSpec == AnalyzerInit /\ [][AnalyzerNext]_vars

\* ------------------------------------------------- graphs of a component list
Deps(comp) == {comp.Dependencies[d] : d \in 1..Len(comp.Dependencies)}

\* (i, j): some dependency of comps[i] is bound to comps[j]
ResolvedEdges(comps) ==
    {e \in (1..Len(comps)) \X (1..Len(comps)) :
        \E dep \in Deps(comps[e[1]]) : findProvider(comps, dep) = e[2]}

\* (i, j): dfs recurses from comps[i] into comps[j]
VisitEdges(comps) ==
    {e \in (1..Len(comps)) \X (1..Len(comps)) :
        \E dep \in Deps(comps[e[1]]) : dfsVisits(dep, comps[e[2]])}

RECURSIVE Closure(_, _)
Closure(E, k) ==
    IF k = 0 THEN E
    ELSE Closure(E \cup {<<pq[1][1], pq[2][2]>> : pq \in {x \in E \X E : x[1][2] = x[2][1]}},
                 k - 1)

HasCycle(E, n) == \E i \in 1..n : <<i, i>> \in Closure(E, n)

DistinctIdentities(comps) ==
    \A i, j \in 1..Len(comps) : componentKey(comps[i]) = componentKey(comps[j]) => i = j

Implements(comp, iface) == iface \in Range(comp.Implements)

Finished == pc = "done"
SortReturned == Finished /\ failure \in {"", "unresolved"}
Written == Finished /\ failure = ""

\* ------------------------------------------------------------------ claims

\* C1: whenever topologicalSort returns an order, every provider that
\* generateComponentInits binds a dependency of a component u to (other than
\* u itself) stands at a strictly smaller index than u in that order.
C1_ProvidersPrecedeDependents ==
    SortReturned =>
        \A i \in 1..Len(ordered) : \A dep \in Deps(ordered[i]) :
            LET v == findProvider(ordered, dep)
            IN  (v # 0 /\ v # i) => v < i

\* C1 witness: a run that succeeded on a list whose first declared component
\* is bound to a provider declared after it, which itself has a dependency.
C1_Witness ==
    /\ Written
    /\ Len(components) = 3
    /\ \E dep \in Deps(components[1]) :
          LET v == findProvider(components, dep)
          IN  v > 1 /\ Len(components[v].Dependencies) > 0

\* C2: a component set whose dependency graph has a cycle never gets an
\* order or an output file: Generate ends with the cyclic-dependency failure
\* of dfs.
C2_CycleAlwaysRejected ==
    (Finished /\ HasCycle(ResolvedEdges(components), Len(components))) =>
        /\ failure = "cyclic"
        /\ ordered = <<>>
        /\ wireGen = <<>>

\* dfs recurses from a component with key k1 into one with key k2
KeyEdge(k1, k2) ==
    \E e \in VisitEdges(components) :
        componentKey(components[e[1]]) = k1 /\ componentKey(components[e[2]]) = k2

\* C3: the dependency path of a cyclic-dependency failure is the loop: first
\* and last element equal, consecutive elements joined by a dependency edge,
\* and no element that occurs twice other than the entry component.
C3_CyclePathIsTheLoop ==
    (Finished /\ failure = "cyclic") =>
        /\ Len(cyclePath) >= 2
        /\ cyclePath[1] = cyclePath[Len(cyclePath)]
        /\ \A k \in 1..(Len(cyclePath) - 1) : KeyEdge(cyclePath[k], cyclePath[k + 1])
        /\ \A k, l \in 1..(Len(cyclePath) - 1) : cyclePath[k] = cyclePath[l] => k = l

\* C4: two runs over the same component list, each on a fresh Generator,
\* end the same way with the same construction order and the same
\* initialisation data, whatever order the runtime ranges over maps in.
C4_RunsAgree ==
    Finished =>
        \A k \in 1..Len(prev) :
            /\ prev[k].failure = failure
            /\ prev[k].ordered = ordered
            /\ prev[k].inits = inits
            /\ (failure = "" => prev[k].file = wireGen)

\* C4 witness: the second run finished with an order of three components, one
\* of them bound to a provider.
C4_Witness ==
    /\ Written
    /\ runs = 2
    /\ Len(ordered) = 3
    /\ \E i \in 1..Len(inits) : Len(inits[i].Dependencies) > 0

\* dep asks for interface m/a.I: as a.I, or as I from inside package m/a
RequestsI(comp, dep) ==
    \/ dep.Type = RefI
    \/ dep.Type = <<"I">> /\ comp.Package = PkgA

\* C6: a request for interface m/a.I with qualifier p, written a.I or (from
\* inside package m/a) I, is bound to the one component that declares
\* implementing m/a.I with qualifier p, in whatever package that component is.
C6_QualifiedRequestBindsTheOneImplementation ==
    SortReturned =>
        \A i \in 1..Len(ordered) : \A dep \in Deps(ordered[i]) :
            LET impls == {j \in 1..Len(ordered) :
                             Implements(ordered[j], IfaceI) /\ ordered[j].Qualifier = dep.Qualifier}
            IN  (RequestsI(ordered[i], dep) /\ dep.Qualifier # <<>> /\ Cardinality(impls) = 1)
                    => findProvider(ordered, dep) \in impls

\* two distinct components implement one interface with one qualifier
ConflictingBinding(comps) ==
    \E i, j \in 1..Len(comps) :
        /\ componentKey(comps[i]) # componentKey(comps[j])
        /\ comps[i].Qualifier = comps[j].Qualifier
        /\ Range(comps[i].Implements) \cap Range(comps[j].Implements) # {}

\* C7: two distinct components implementing one interface with one qualifier
\* make Generate fail before anything is bound or written.
C7_ConflictRejected ==
    (Finished /\ ConflictingBinding(components)) =>
        /\ failure # ""
        /\ inits = <<>>
        /\ wireGen = <<>>

\* C8: two components with one identity make Generate fail; the second is
\* neither dropped from the construction order nor does it replace the first.
C8_DuplicateIdentityRejected ==
    (Finished /\ ~DistinctIdentities(components)) =>
        /\ failure # ""
        /\ wireGen = <<>>

\* C9: wire_gen.go is written only when the list is not empty, has no cycle
\* and every dependency of every component is bound to a provider.
C9_NoPartialEmission ==
    wireGen # <<>> =>
        /\ Len(components) > 0
        /\ ~HasCycle(ResolvedEdges(components), Len(components))
        /\ \A i \in 1..Len(components) : \A dep \in Deps(components[i]) :
              findProvider(components, dep) # 0

\* a cleanup call names a Container field; the field holds the component
\* that Initialize assigned to it last
FieldHolder(text, field) ==
    LET writers == {i \in 1..Len(text.Initialize) : text.Initialize[i].Field = field}
    IN  CHOOSE i \in writers : \A j \in writers : j <= i

CleanupCalls(text) == [k \in 1..Len(text.Cleanup) |-> FieldHolder(text, text.Cleanup[k])]

\* C10: the cleanup closure calls PreDestroy on exactly the constructed
\* components that have one, each once, in reverse construction order.
\* A call names a Container field; the field holds the component that
\* Initialize assigned to it last.
C10_CleanupReversesConstruction ==
    Written =>
        CleanupCalls(wireGen[1]) =
            Reverse(SelectSeq([i \in 1..Len(ordered) |-> i], LAMBDA i : ordered[i].PreDestroy))

\* ------------------------------------------- the emitted Initialize, executed
\* the field names the emitted Container declares
DeclaredFields(text) == {text.Container[i].Field : i \in 1..Len(text.Container)}

\* the statements of Initialize run in order.  fields maps a declared field to
\* the index of the component it holds (0: nil).  The composite literal of
\* statement i reads container.<Ref> for every dependency (-1: the Container
\* declares no such field), the result is stored in container.<Type>, and
\* the PostConstruct call that follows goes to whatever that field holds.
RECURSIVE runInitialize(_, _, _, _)
runInitialize(text, i, fields, events) ==
    IF i > Len(text.Initialize) THEN [fields |-> fields, events |-> events]
    ELSE LET stmt == text.Initialize[i]
             reads == [d \in 1..Len(stmt.Dependencies) |->
                          IF stmt.Dependencies[d].Ref \in DOMAIN fields
                          THEN fields[stmt.Dependencies[d].Ref] ELSE -1]
             stored == [fields EXCEPT ![stmt.Field] = i]
             new == [kind |-> "new", comp |-> i, field |-> stmt.Field, reads |-> reads]
             post == [kind |-> "PostConstruct", comp |-> stored[stmt.Field],
                      field |-> stmt.Field, reads |-> <<>>]
         IN  runInitialize(text, i + 1, stored,
                           IF stmt.PostConstruct THEN events \o <<new, post>>
                           ELSE events \o <<new>>)

Initialize(text) == runInitialize(text, 1, [f \in DeclaredFields(text) |-> 0], <<>>)

\* event k of ev is the construction of component i of the order
Constructs(ev, k, i) == ev[k].kind = "new" /\ ev[k].comp = i
PostConstructs(ev, k, i) == ev[k].kind = "PostConstruct" /\ ev[k].comp = i

\* C11: in the emitted Initialize a PostConstruct call happens only after its
\* component was allocated with a value for each of its dependency fields,
\* and after every provider bound to one of its dependencies was constructed
\* and, if it has the hook, had its own PostConstruct called.
C11_PostConstructAfterProviders ==
    Written =>
        LET ev == Initialize(wireGen[1]).events IN
        \A k \in 1..Len(ev) : ev[k].kind = "PostConstruct" =>
            LET i == ev[k].comp IN
            /\ \E j \in 1..(k - 1) :
                  Constructs(ev, j, i) /\ Len(ev[j].reads) = Len(ordered[i].Dependencies)
            /\ \A dep \in Deps(ordered[i]) :
                  LET v == findProvider(ordered, dep) IN
                  /\ v # 0
                  /\ \E j \in 1..(k - 1) : Constructs(ev, j, v)
                  /\ ordered[v].PostConstruct => \E j \in 1..(k - 1) : PostConstructs(ev, j, v)

\* C11 witness: a written file for a list whose first declared component has
\* the hook and is bound to a provider, declared after it, that has the hook.
C11_Witness ==
    /\ Written
    /\ Len(components) >= 2
    /\ components[1].PostConstruct
    /\ \E dep \in Deps(components[1]) :
          LET v == findProvider(components, dep)
          IN  v > 1 /\ components[v].PostConstruct
    /\ \E k \in 1..Len(Initialize(wireGen[1]).events) :
          Initialize(wireGen[1]).events[k].kind = "PostConstruct"

\* C12: the emitted Container has one field per component of the order, the
\* field names are pairwise distinct also when type names collide, each
\* component ends up in its own field, and every dependency assignment of
\* Initialize reads a declared field that holds the bound provider.
C12_CollidingNamesGetOwnFields ==
    Written =>
        LET text == wireGen[1]
            run == Initialize(text)
        IN  /\ Len(text.Container) = Len(ordered)
            /\ \A i, j \in 1..Len(text.Container) :
                  text.Container[i].Field = text.Container[j].Field => i = j
            /\ \A i \in 1..Len(text.Container) : run.fields[text.Container[i].Field] = i
            /\ \A k \in 1..Len(run.events) : run.events[k].kind = "new" =>
                  \A d \in 1..Len(run.events[k].reads) :
                      run.events[k].reads[d] =
                          findProvider(ordered, ordered[run.events[k].comp].Dependencies[d])

\* the components of comps that declare implementing m/a.I
ImplementersOfI(comps) == {j \in 1..Len(comps) : Implements(comps[j], IfaceI)}

\* C19: a request for interface m/a.I (written a.I) without a qualifier,
\* with exactly one component implementing m/a.I, qualified or not, is bound
\* by generateComponentInits to that one component.
C19_UnqualifiedRequestBindsSoleImplementation ==
    SortReturned =>
        \A i \in 1..Len(ordered) : \A dep \in Deps(ordered[i]) :
            (/\ dep.Type = RefI
             /\ dep.Qualifier = <<>>
             /\ Cardinality(ImplementersOfI(ordered)) = 1)
                => findProvider(ordered, dep) \in ImplementersOfI(ordered)

\* C27: when every dependency resolves to a provider and the edges from the
\* components to their qualifier-selected providers form no cycle, dfs
\* raises no cyclic-dependency failure and topologicalSort returns an order
\* (a decorator of an interface it implements under another qualifier
\* included).
C27_CyclicFailureOnlyForResolvedCycle ==
    (/\ Finished
     /\ \A i \in 1..Len(components) :
            \A dep \in Deps(components[i]) : findProvider(components, dep) # 0
     /\ ~HasCycle(ResolvedEdges(components), Len(components)))
        => failure # "cyclic"

\* C28: a second call of Generate (of topologicalSort) on a Generator that
\* completed a successful run returns the construction order of the first
\* call, with every component in it.
C28_RerunReturnsSameOrder ==
    (pc = "done" /\ Len(prev) >= 1 /\ prev[Len(prev)].failure = "") =>
        /\ failure = ""
        /\ ordered = prev[Len(prev)].ordered
        /\ \A i \in 1..Len(components) : components[i] \in Range(ordered)

\* C29: for a list with pairwise distinct identities and no cycle, the
\* order a fresh topologicalSort returns is a permutation of the list, each
\* component exactly once; and on return cyclicMap is empty and visited
\* holds the identity of every component.
C29_OrderIsPermutation ==
    (/\ SortReturned
     /\ DistinctIdentities(components)
     /\ ~HasCycle(ResolvedEdges(components), Len(components)))
        => /\ Len(ordered) = Len(components)
           /\ \A i \in 1..Len(components) :
                 Cardinality({k \in 1..Len(ordered) : ordered[k] = components[i]}) = 1
           /\ cyclicMap = {}
           /\ visited = KeysOf(components)

\* C29 witness: a fresh run returned for three distinct acyclic components,
\* of which the first declared has a dependency and is not ordered first.
C29_Witness ==
    /\ SortReturned
    /\ DistinctIdentities(components)
    /\ ~HasCycle(ResolvedEdges(components), Len(components))
    /\ Len(components) = 3
    /\ Len(components[1].Dependencies) > 0
    /\ ordered[1] # components[1]
    /\ visited = KeysOf(components)

\* ------------------------------------------------- claims on the container
Registered == cpc = "done"

\* the qualifiers under which the container's definitions implement iface
QualifiersOf(iface) ==
    {container.definitions[n].qualifier :
        n \in {m \in DOMAIN container.definitions :
                  iface \in Range(container.definitions[m].implements)}}

\* the (definition, dependency) pairs that ask for an interface without a
\* qualifier while definitions with two or more qualifiers implement it
AmbiguousRequests ==
    {r \in {<<n, k>> : n \in DOMAIN container.definitions, k \in 1..MaxTypes} :
        /\ r[2] <= Len(container.definitions[r[1]].dependencies)
        /\ container.definitions[r[1]].dependencies[r[2]].qualifier = <<>>
        /\ Cardinality(QualifiersOf(
               getFullInterfaceName(fieldTypePkgPath(container.definitions[r[1]].typ.fields[r[2]]),
                                    container.definitions[r[1]].dependencies[r[2]].typeName))) >= 2}

RequestedInterface(r) ==
    getFullInterfaceName(fieldTypePkgPath(container.definitions[r[1]].typ.fields[r[2]]),
                         container.definitions[r[1]].dependencies[r[2]].typeName)

FieldUnset(r) ==
    r[1] \in DOMAIN container.heap =>
        container.heap[r[1]][container.definitions[r[1]].dependencies[r[2]].fieldName] = <<>>

\* C5 as stated: an unqualified request for an interface implemented under
\* two or more qualifiers makes RegisterComponents return the error that
\* lists all available qualifiers, and the field stays unset.
C5_AmbiguityAlwaysReported ==
    Registered =>
        \A r \in AmbiguousRequests :
            /\ container.err.kind = "multiple implementations"
            /\ container.err.qualifiers = QualifiersOf(RequestedInterface(r))
            /\ FieldUnset(r)

\* C5 amended: with such a request RegisterComponents never succeeds and the
\* field stays unset; a failure raised for that field is the multiple-
\* implementations error listing all available qualifiers.  (Resolution may
\* stop earlier, at the failure of another component or field.)
C5_AmbiguousRequestNeverBound ==
    Registered =>
        \A r \in AmbiguousRequests :
            /\ container.err # NoError
            /\ FieldUnset(r)
            /\ (/\ container.err.component = r[1]
                /\ container.err.field = container.definitions[r[1]].dependencies[r[2]].fieldName)
                   => /\ container.err.kind = "multiple implementations"
                      /\ container.err.type = RequestedInterface(r)
                      /\ container.err.qualifiers = QualifiersOf(RequestedInterface(r))

\* C5 witness: the consumer is registered first, two implementations with
\* different qualifiers after it, and the run ended with the error for the
\* consumer's field, listing both qualifiers.
C5_Witness ==
    /\ Registered
    /\ Len(types) = 3
    /\ Len(types[1].fields) = 1
    /\ \E r \in AmbiguousRequests :
          /\ r[1] = getFullComponentName(types[1].pkg, types[1].name)
          /\ container.err.kind = "multiple implementations"
          /\ container.err.component = r[1]
          /\ Cardinality(container.err.qualifiers) = 2
          /\ FieldUnset(r)

\* the name a struct type is registered under
RegisteredName(t) == getFullComponentName(t.pkg, hasComponentAnnotation(t).name)

\* field f of a dependent asks for the component t: its type is t or *t, or
\* it is an interface that t implements under the qualifier the field names
FieldRequests(f, t) ==
    \/ f.pkg = t.pkg /\ f.typeName = t.name
    \/ /\ f.kind = "named"
       /\ f.qualifier # <<>>
       /\ f.qualifier = t.qualifier
       /\ \E k \in 1..Len(t.implements) :
             getFullInterfaceName(t.pkg, t.implements[k]) = getFullInterfaceName(f.pkg, f.typeName)

AllRegistered == Registered /\ container.err.kind # "not a component"

\* C13: once every type is registered, resolve's first pass has given every
\* definition its one instance and has published the (interface, qualifier)
\* binding of every definition in the interface index, and the second pass
\* leaves both maps alone; so a dependency on a component or implementation
\* registered later than its dependent is found and injected.
C13_FirstPassPublishesEveryBinding ==
    AllRegistered =>
        /\ DOMAIN container.components = DOMAIN container.definitions
        /\ \A n \in DOMAIN container.definitions :
              /\ container.components[n] = n
              /\ \A i \in Range(container.definitions[n].implements) :
                    /\ i \in DOMAIN container.interfaces
                    /\ container.definitions[n].qualifier \in DOMAIN container.interfaces[i]
                    /\ container.interfaces[i][container.definitions[n].qualifier]
                           = container.components[n]
        /\ \A a, b \in 1..Len(types) : a < b =>
              \A k \in 1..Len(types[a].fields) :
                  FieldRequests(types[a].fields[k], types[b]) =>
                      /\ ~ /\ container.err.kind = "dependency not found"
                           /\ container.err.component = RegisteredName(types[a])
                           /\ container.err.field = types[a].fields[k].name
                      /\ container.err = NoError =>
                            container.heap[RegisteredName(types[a])][types[a].fields[k].name] # <<>>

\* C14: RegisterComponents returns for every list of registered types: a
\* dfsResolve call that re-enters a component whose dependencies are still
\* being resolved ends with an error, never with a recursion without end.
C14_ResolveAlwaysReturns ==
    Registered => container.err.kind # "unbounded recursion"

\* ------------------------------------------------------- claims on lookups
\* the keys of a map that a lookup name stands for: the key itself, or a key
\* that ends with "." and the name
NameMatches(keys, name) == {n \in keys : n = name \/ HasSuffix(n, <<Dot>> \o name)}

Succeeded == Registered /\ container.err = NoError

\* C15: after a successful RegisterComponents, Get(name) returns the
\* component whose full name the (lower-cased) name matches when there is
\* exactly one such component, and nil when there is none or more than one;
\* GetQualified does the same over the interface names of the index.
C15_ShortNameThreshold ==
    Succeeded =>
        /\ call.op = "Get" =>
              LET m == NameMatches(DOMAIN container.components, ToLower(call.name))
              IN  IF Cardinality(m) = 1
                  THEN call.result = <<container.components[CHOOSE n \in m : TRUE]>>
                  ELSE call.result = <<>>
        /\ call.op = "GetQualified" =>
              LET m == NameMatches(DOMAIN container.interfaces, call.name)
              IN  IF Cardinality(m) = 1
                  THEN LET impls == container.interfaces[CHOOSE i \in m : TRUE]
                       IN  call.result = IF call.qualifier \in DOMAIN impls
                                         THEN <<impls[call.qualifier]>> ELSE <<>>
                  ELSE call.result = <<>>

\* the results a Get or GetQualified call on container c can return
LookupResults(c, op, name, qualifier) ==
    IF op = "Get"
    THEN {Get(c, iter, name).result : iter \in Orders(DOMAIN c.components)}
    ELSE {GetQualified(c, name, qualifier).result}

FieldsSet(n) == {f \in DOMAIN container.heap[n] : container.heap[n][f] # <<>>}

\* C17: when RegisterComponents returned an error, no instance of the
\* container has a dependency field set (in particular none has some fields
\* set and others not), and Get and GetQualified hand out no instance.
C17_NoPartialRuntimeWiring ==
    (Registered /\ container.err # NoError) =>
        /\ \A n \in DOMAIN container.heap : FieldsSet(n) = {}
        /\ call.op # "" => call.result = <<>>

\* the (definition, dependency) pairs that ask, through a field of a named
\* type, for an interface nothing implements, while no component is
\* registered under that name either
UnprovidedRequests ==
    {r \in {<<n, k>> : n \in DOMAIN container.definitions, k \in 1..MaxTypes} :
        /\ r[2] <= Len(container.definitions[r[1]].dependencies)
        /\ container.definitions[r[1]].typ.fields[r[2]].kind = "named"
        /\ RequestedInterface(r) \notin DOMAIN container.interfaces
        /\ getFullComponentName(container.definitions[r[1]].typ.fields[r[2]].pkg,
                                container.definitions[r[1]].dependencies[r[2]].typeName)
               \notin DOMAIN container.components}

\* every dependency field of every definition is set and every definition is
\* marked visited
AllInjected ==
    \A n \in DOMAIN container.definitions :
        /\ n \in container.visited
        /\ n \in DOMAIN container.heap
        /\ \A k \in 1..Len(container.definitions[n].dependencies) :
              container.heap[n][container.definitions[n].dependencies[k].fieldName] # <<>>

\* C18 as stated: RegisterComponents returns nil only with every dependency
\* set and every component visited, and a request nothing provides makes it
\* return the error naming the requested type and qualifier.
C18_UnprovidedRequestReported ==
    AllRegistered =>
        /\ container.err = NoError => AllInjected
        /\ \A r \in UnprovidedRequests :
              /\ container.err.kind = "dependency not found"
              /\ container.err.type = RequestedInterface(r)
              /\ container.err.qualifier =
                     container.definitions[r[1]].dependencies[r[2]].qualifier

\* C18 amended: RegisterComponents returns nil only with every dependency
\* set and every component visited; with a request nothing provides it never
\* returns nil, that field stays unset, and a failure raised for that field
\* is the not-found error naming the requested type and qualifier.
C18_NilOnlyWhenAllInjected ==
    AllRegistered =>
        /\ container.err = NoError => AllInjected
        /\ \A r \in UnprovidedRequests :
              /\ container.err # NoError
              /\ FieldUnset(r)
              /\ (/\ container.err.component = r[1]
                  /\ container.err.field =
                         container.definitions[r[1]].dependencies[r[2]].fieldName)
                     => /\ container.err.kind = "dependency not found"
                        /\ container.err.type = RequestedInterface(r)
                        /\ container.err.qualifier =
                               container.definitions[r[1]].dependencies[r[2]].qualifier

\* C18 witness: the definition registered first asks for an interface that
\* nothing provides, and RegisterComponents returned the not-found error for
\* that field after another definition had its dependencies injected.
C18_Witness ==
    /\ AllRegistered
    /\ Len(types) = 3
    /\ \E r \in UnprovidedRequests :
          /\ r[1] = RegisteredName(types[1])
          /\ container.err.kind = "dependency not found"
          /\ container.err.component = r[1]
          /\ FieldUnset(r)
    /\ container.visited # {}

\* the registered components dfsResolve resolves before it injects n: the
\* names it forms from n's dependencies that have a definition
RegisteredDependencies(n) ==
    {getFullComponentName(container.definitions[n].typ.fields[k].pkg,
                          container.definitions[n].dependencies[k].typeName) :
        k \in 1..Len(container.definitions[n].dependencies)}
    \cap DOMAIN container.definitions

RECURSIVE DependsOn(_, _, _)
DependsOn(n, m, steps) ==
    /\ steps > 0
    /\ \/ m \in RegisteredDependencies(n)
       \/ \E x \in RegisteredDependencies(n) : DependsOn(x, m, steps - 1)

AcyclicDefinitions ==
    \A n \in DOMAIN container.definitions :
        ~DependsOn(n, n, Cardinality(DOMAIN container.definitions))

\* resolve ran over the definitions
Resolved == AllRegistered /\ DOMAIN container.components = DOMAIN container.definitions

InjectCallsOf(n) ==
    {k \in 1..Len(container.injectCalls) : container.injectCalls[k].name = n}

\* in the calls made, a request for a visited component is a no-op and a
\* component is injected after its registered dependencies were visited
VisitedIsFinal ==
    /\ \A n \in container.visited : dfsResolve(container, n, {}) = container
    /\ \A k \in 1..Len(container.injectCalls) :
          RegisteredDependencies(container.injectCalls[k].name)
              \subseteq container.injectCalls[k].visited

\* C26 as stated: in a resolve run over acyclic definitions injectDependencies
\* is executed exactly once for each registered component; a dfsResolve
\* request for a visited component changes nothing, and the registered
\* dependencies of a component are visited before it is injected.
C26_InjectedExactlyOnce ==
    (Resolved /\ AcyclicDefinitions) =>
        /\ \A n \in DOMAIN container.definitions : Cardinality(InjectCallsOf(n)) = 1
        /\ VisitedIsFinal

\* C26 amended: injectDependencies is executed at most once for each
\* registered component, and exactly once when the run returns nil (the run
\* ends at the first failure, before the remaining components are
\* injected); the rest as stated.
C26_InjectedAtMostOnce ==
    (Resolved /\ AcyclicDefinitions) =>
        /\ \A n \in DOMAIN container.definitions : Cardinality(InjectCallsOf(n)) <= 1
        /\ container.err = NoError =>
              \A n \in DOMAIN container.definitions : Cardinality(InjectCallsOf(n)) = 1
        /\ VisitedIsFinal

\* C26 witness: a run over three definitions returned nil; the one injected
\* last has a registered dependency that the second pass had reached, and
\* injected, before it.
C26_Witness ==
    /\ Resolved
    /\ AcyclicDefinitions
    /\ container.err = NoError
    /\ Len(container.injectCalls) = 3
    /\ RegisteredDependencies(container.injectCalls[3].name) # {}
    /\ container.injectCalls[3].visited = {container.injectCalls[1].name,
                                            container.injectCalls[2].name}


\* --------------------------------------------------- claims on the analyzer
\* component i of the analyzed list satisfies no dependency of any component
IndegreeZero(i) ==
    \A j \in 1..Len(analyzed) : \A d \in 1..Len(analyzed[j].Dependencies) :
        ~dependencyMatches(analyzed[i], analyzed[j].Dependencies[d])

IndegreeZeroIndexes == {i \in 1..Len(analyzed) : IndegreeZero(i)}

\* the k-th smallest index of a component with indegree zero
NthIndegreeZero(k) ==
    CHOOSE i \in IndegreeZeroIndexes :
        Cardinality({j \in IndegreeZeroIndexes : j < i}) = k - 1

HasUnsatisfiedDependency(i) ==
    \E d \in 1..Len(analyzed[i].Dependencies) :
        \A j \in 1..Len(analyzed) :
            ~dependencyMatches(analyzed[j], analyzed[i].Dependencies[d])

OrphanedIndexes == {i \in 1..Len(analyzed) : HasUnsatisfiedDependency(i)}

NthOrphaned(k) ==
    CHOOSE i \in OrphanedIndexes : Cardinality({j \in OrphanedIndexes : j < i}) = k - 1

\* C21: FindOrphanedComponents returns exactly the components with at least
\* one dependency that no component satisfies, each once and in declaration
\* order; a component whose dependencies all have a provider is not reported.
C21_OrphanedHaveAnUnsatisfiedDependency ==
    acall = "FindOrphanedComponents" =>
        /\ Len(orphaned) = Cardinality(OrphanedIndexes)
        /\ \A k \in 1..Len(orphaned) : orphaned[k] = analyzed[NthOrphaned(k)]

\* C21 witness: of three components with dependencies, the first and the last
\* are reported and the one between them, whose dependency has a provider,
\* is not.
C21_Witness ==
    /\ acall = "FindOrphanedComponents"
    /\ Len(analyzed) = 3
    /\ \A i \in 1..3 : analyzed[i].Dependencies # <<>>
    /\ orphaned = <<analyzed[1], analyzed[3]>>
    /\ analyzed[1] # analyzed[3]
\* the identities of the components implementing a pair (interface, qualifier)
ImplementersOfPair(pair) ==
    {componentKey(analyzed[i]) :
        i \in {j \in 1..Len(analyzed) : /\ Implements(analyzed[j], pair[1])
                                         /\ analyzed[j].Qualifier = pair[2]}}

\* the pairs implemented by two or more distinct components
ConflictPairs ==
    {pair \in qualifierPairs(analyzed) : Cardinality(ImplementersOfPair(pair)) >= 2}

RecordsOfPair(pair) ==
    {k \in 1..Len(conflicts) : /\ conflicts[k].Interface = pair[1]
                               /\ conflicts[k].Qualifier = pair[2]}

\* C22: FindQualifierConflicts returns exactly one record for each
\* (interface, qualifier) pair implemented by two or more distinct components
\* and none for any other pair; the record lists all components of the pair,
\* with severity ERROR for a non-empty qualifier and WARNING for the empty one.
C22_OneRecordPerConflictingPair ==
    acall = "FindQualifierConflicts" =>
        /\ \A pair \in ConflictPairs :
              /\ Cardinality(RecordsOfPair(pair)) = 1
              /\ \A k \in RecordsOfPair(pair) :
                    /\ Range(conflicts[k].Conflicting) = ImplementersOfPair(pair)
                    /\ conflicts[k].Severity = IF pair[2] = <<>> THEN "WARNING" ELSE "ERROR"
        /\ \A k \in 1..Len(conflicts) :
              <<conflicts[k].Interface, conflicts[k].Qualifier>> \in ConflictPairs
\* the analyzer's dependency relation on a list: some dependency of comps[i]
\* is satisfied by comps[j]
AnalyzerEdge(comps, i, j) ==
    \E d \in 1..Len(comps[i].Dependencies) :
        dependencyMatches(comps[j], comps[i].Dependencies[d])

\* the number of edges, up to n, of the longest chain of edges from comps[i]
RECURSIVE LongestChain(_, _, _)
LongestChain(comps, i, n) ==
    LET next == {j \in 1..Len(comps) : AnalyzerEdge(comps, i, j)}
        below == {LongestChain(comps, j, n - 1) : j \in next}
    IN  IF n = 0 \/ next = {} THEN 0
        ELSE 1 + CHOOSE m \in below : \A l \in below : l <= m

\* a chain as long as the list exists from comps[i]: it is on a cycle or
\* reaches one
ReachesCycle(comps, i) == LongestChain(comps, i, Len(comps)) >= Len(comps)

\* C23: CalculateDependencyDepth has an entry for every component: -1 for a
\* component on a dependency cycle or reaching one, else the number of edges
\* of the longest dependency chain from it; and the result is the same for
\* every order of declaration.
C23_DepthIsLongestChainOrCycleMark ==
    acall = "CalculateDependencyDepth" =>
        /\ depths.returned
        /\ DOMAIN depths.depths = KeysOf(analyzed)
        /\ \A i \in 1..Len(analyzed) :
              depths.depths[componentKey(analyzed[i])] =
                  IF ReachesCycle(analyzed, i) THEN -1
                  ELSE LongestChain(analyzed, i, Len(analyzed))
        /\ \A order \in Orders(1..Len(analyzed)) :
              CalculateDependencyDepth([k \in 1..Len(analyzed) |-> analyzed[order[k]]]) = depths

\* the analyzer's dependency relation on identities: a dependency of some
\* component declared as `from` is satisfied by one declared as `to`
AnalyzerKeyEdge(from, to) ==
    \E i, j \in 1..Len(analyzed) :
        /\ componentKey(analyzed[i]) = from
        /\ componentKey(analyzed[j]) = to
        /\ AnalyzerEdge(analyzed, i, j)

\* C25: FindCircularDependencies reports a cycle exactly when the analyzer's
\* dependency relation has one; every reported path ends where it starts,
\* follows dependency edges, and repeats no other component.
C25_CyclesReportedExactlyWhenPresent ==
    acall = "FindCircularDependencies" =>
        /\ cycles.returned
        /\ Len(cycles.cycles) > 0 <=>
               \E i \in 1..Len(analyzed) : ReachesCycle(analyzed, i)
        /\ \A c \in 1..Len(cycles.cycles) :
              LET path == cycles.cycles[c].Path IN
              /\ Len(path) >= 2
              /\ path[1] = path[Len(path)]
              /\ \A k \in 1..(Len(path) - 1) : AnalyzerKeyEdge(path[k], path[k + 1])
              /\ \A k, l \in 1..(Len(path) - 1) : path[k] = path[l] => k = l
\* C24: PerformComprehensiveAnalysis returns a result for every component
\* list, with cycles, self-dependencies, unresolved dependencies, ambiguous
\* bindings or identities declared twice, and leaves the analyzer's
\* component list as it was.
C24_AnalysisAlwaysReturns ==
    [][acall' = "PerformComprehensiveAnalysis" =>
          /\ analyzed' = analyzed
          /\ Len(result') = 1
          /\ result'[1].returned
          /\ result'[1].TotalComponents = Len(analyzed)]_vars

\* C24 witness: the analysis returned for a list in which a component that
\* depends on itself is declared twice, next to a component with a
\* dependency nothing satisfies.
C24_Witness ==
    /\ acall = "PerformComprehensiveAnalysis"
    /\ Len(analyzed) = 3
    /\ analyzed[1] = analyzed[2]
    /\ result[1].returned
    /\ Len(result[1].CircularDependencies) > 0
    /\ Len(result[1].OrphanedComponents) > 0
    /\ \E key \in DOMAIN result[1].DependencyDepth : result[1].DependencyDepth[key] = -1
\* C30: FindCircularDependencies reports a cycle for a component list
\* exactly when Generator.topologicalSort fails on that list with a cyclic
\* dependency, also when a dependency's qualifier differs from that of a
\* candidate provider.
C30_AnalyzerAndGeneratorAgreeOnCycles ==
    acall = "FindCircularDependencies" =>
        (Len(cycles.cycles) > 0 <=>
            \A iter \in Orders(KeysOf(analyzed)) :
                topologicalSort(analyzed, iter, {}, {}).panic)
====
